---------------------------- MODULE Spec2Model ----------------------------
(* A model of ss::HashTable<int, int> (src/HashTable.h): a chained hash    *)
(* table with an occupancy bitset, first/last occupied-bucket tracking and  *)
(* a forward iterator that is a (bucket index, chain index) pair.           *)
(*                                                                          *)
(* Indices are kept 0-based as in the source: buckets and the bitset are    *)
(* functions over 0..n-1.  A chain is a sequence of <<key, value>> pairs;   *)
(* the entry at chain index c is chain[c + 1].                              *)
EXTENDS Integers, Sequences, FiniteSets, TLC

(***************************************************************************)
(* Bounds of the model.                                                    *)
(***************************************************************************)
\* keys are at most MaxKey
MaxKey == 3
\* the table under test is constructed with a capacity of at most MaxInitCap
MaxInitCap == 4
\* rehash(n) and reserve(n) are called with n in 0..MaxRehash
MaxRehash == 4
\* how many ++ steps past size() a caller's traversal is followed
MaxOverrun == 2
\* the long-chain runs: the capacity the table is constructed with, and the
\* keys 0, ChainCap - 1, ..., MaxChainKey * (ChainCap - 1), which share bucket 0
ChainCap == 5
MaxChainKey == 3

(***************************************************************************)
(* Program constants.                                                      *)
(***************************************************************************)
DEFAULT_BUCKET_COUNT == 8
\* boost::dynamic_bitset<>::npos, kept as an out-of-band index
npos == -1

\* The keys handed to the table.  2 is left out: 0, 1 and 3 already give two
\* keys in one chain at every capacity of InitCaps (0 and 3 at capacity 4, with
\* 1 in another bucket; 1 and 3 at capacity 3), and the state space stays small.
Keys == {k \in 0..MaxKey : k # 2}
\* The mapped values: 0, which is the default-constructed int, and one other.
\* The table only stores, moves and compares mapped values, so two of them
\* show every overwrite and every mix-up of entries.
Values == {0, 1}
\* capacities the table under test is constructed with: the index function's
\* modulus is capacity - 1, so the smallest capacity it is defined for is 2
InitCaps == 2..MaxInitCap
ChainKeys == {k * (ChainCap - 1) : k \in 0..MaxChainKey}

(***************************************************************************)
(* Helpers.                                                                *)
(***************************************************************************)
Min(S) == CHOOSE x \in S : \A y \in S : x <= y
Max(S) == CHOOSE x \in S : \A y \in S : x >= y

RECURSIVE GCD(_, _)
GCD(a, b) == IF b = 0 THEN a ELSE GCD(b, a % b)

\* a float that is the quotient of two small naturals, by value
Frac(a, b) == IF a = 0 THEN <<0, 1>> ELSE <<a \div GCD(a, b), b \div GCD(a, b)>>

\* std::hash<int>: the value itself, as a size_t (keys are non-negative)
DefaultHash(k) == k

\* an iterator of the one table: (_bucket_idx, _chain_idx)
Pos(b, c) == [bucket_idx |-> b, chain_idx |-> c]

\* _buckets.size()
bucket_count(t) == Cardinality(DOMAIN t._buckets)

RECURSIVE rehash(_, _)
RECURSIVE _insert(_, _)
RECURSIVE _insert_in_container(_, _, _)

(***************************************************************************)
(* The table.                                                              *)
(***************************************************************************)
_init(n) ==
    [ _size                  |-> 0,
      _bucket_count          |-> IF n > 0 THEN n - 1 ELSE 0,
      _first_nonempty_bucket |-> n,
      _last_nonempty_bucket  |-> 0,
      _load_factor           |-> Frac(0, 1),
      _max_load_factor       |-> Frac(1, 1),
      _buckets               |-> [i \in 0..(n - 1) |-> <<>>],
      _non_empty_buckets     |-> [i \in 0..(n - 1) |-> 0] ]

\* an index function whose modulus is the size of the bucket array
bucket_private_by_size(t, k) == DefaultHash(k) % bucket_count(t)

bucket_private(t, k) == DefaultHash(k) % t._bucket_count

\* _find looking at the head of the chain only
_find_head_only(t, key) ==
    LET bucket_idx == bucket_private(t, key)
        bucket     == t._buckets[bucket_idx]
        key_found  == bucket # <<>> /\ bucket[1][1] = key
    IN  [found |-> key_found, bucket_idx |-> bucket_idx, chain_idx |-> 0]

\* <<found, bucket index, chain index>> as a record
_find(t, key) ==
    LET bucket_idx == bucket_private(t, key)
        bucket     == t._buckets[bucket_idx]
        hits       == {i \in 1..Len(bucket) : bucket[i][1] = key}
        key_found  == hits # {}
    IN  [ found      |-> key_found,
          bucket_idx |-> bucket_idx,
          chain_idx  |-> IF key_found THEN Min(hits) - 1 ELSE 0 ]

\* iterator(this, _buckets.size() - 1, 0)
end(t) == [bucket_idx |-> bucket_count(t) - 1, chain_idx |-> 0]

\* what a call gives when the process is killed inside it
Killed == [crashed |-> TRUE]

\* find(key): the iterator it returns.  On a table with _bucket_count == 0
\* (constructed with capacity 1 or 0) _find divides by zero in bucket_private:
\* the process is killed by SIGFPE, with and without asserts, at -O0 and -O2.
find(t, key) ==
    IF t._bucket_count = 0 THEN Killed
    ELSE LET found == _find(t, key)
         IN  IF found.found THEN Pos(found.bucket_idx, found.chain_idx) ELSE end(t)

begin(t) ==
    IF t._size = 0 THEN end(t)
    ELSE [bucket_idx |-> t._first_nonempty_bucket, chain_idx |-> 0]

\* dynamic_bitset::find_first / find_next
find_first(bits) ==
    LET set == {i \in DOMAIN bits : bits[i] = 1}
    IN  IF set = {} THEN npos ELSE Min(set)

find_next(bits, pos) ==
    LET set == {i \in DOMAIN bits : bits[i] = 1 /\ i > pos}
    IN  IF set = {} THEN npos ELSE Min(set)

\* _ht_iterator::operator++, as the iterator it leaves in *this
operator_inc(t, it) ==
    LET chain == t._buckets[it.bucket_idx]
        next_nonempty_bucket == find_next(t._non_empty_buckets, it.bucket_idx)
    IN  IF chain # <<>> /\ it.chain_idx < Len(chain) - 1
        THEN [it EXCEPT !.chain_idx = @ + 1]
        ELSE IF next_nonempty_bucket # npos
        THEN [bucket_idx |-> next_nonempty_bucket, chain_idx |-> 0]
        ELSE IF it.chain_idx < Len(chain)
        THEN [it EXCEPT !.chain_idx = @ + 1]
        ELSE it

\* _ht_iterator::operator++(int), as the set of its outcomes: the iterator it
\* leaves in *this and the copy it returns.  Its assert wants a position that
\* holds an entry: elsewhere the build with asserts aborts, and the build with
\* NDEBUG goes on to ++*this.
operator_post_inc(t, it) ==
    LET live == /\ it.bucket_idx < bucket_count(t)
                /\ it.chain_idx < Len(t._buckets[it.bucket_idx])
        advanced == [crashed |-> FALSE, it |-> operator_inc(t, it), copy |-> it]
    IN  IF live THEN {advanced}
        ELSE {[crashed |-> TRUE, it |-> it, copy |-> it], advanced}

\* the loop doubling only while the load is strictly above the maximum
RECURSIVE GrowBuckets_strict(_, _, _)
GrowBuckets_strict(size, mlf, buckets) ==
    IF (size + 1) * mlf[2] > mlf[1] * buckets
    THEN GrowBuckets_strict(size, mlf, 2 * buckets)
    ELSE buckets

\* the while loop of _insert_in_container: double until the load is below the maximum
RECURSIVE GrowBuckets(_, _, _)
GrowBuckets(size, mlf, buckets) ==
    IF (size + 1) * mlf[2] >= mlf[1] * buckets
    THEN GrowBuckets(size, mlf, 2 * buckets)
    ELSE buckets

\* every entry of the table, chains in bucket order, each chain front to back
RECURSIVE EntriesFrom(_, _)
EntriesFrom(t, i) ==
    IF i >= bucket_count(t) THEN <<>>
    ELSE t._buckets[i] \o EntriesFrom(t, i + 1)

\* the loop of rehash: insert(std::move(kv)) for every entry of the old array
RECURSIVE ReinsertAll(_, _)
ReinsertAll(t, kvs) ==
    IF kvs = <<>> THEN t
    ELSE ReinsertAll(_insert(t, Head(kvs)).t, Tail(kvs))

\* rehash that sizes the new bucket array and re-inserts nothing
rehash_no_reinsert(t, n) ==
    IF n <= t._bucket_count THEN t
    ELSE _init(n)

\* rehash that returns early unless n exceeds the size of the bucket array, so
\* that an insert that needs no growth does not rebuild the table
rehash_if_larger(t, n) ==
    IF n <= bucket_count(t) THEN t
    ELSE ReinsertAll(_init(n), EntriesFrom(t, 0))

\* rehash that rebuilds the table with n buckets for every n >= 2, a smaller
\* n than the current capacity included
rehash_shrinks(t, n) ==
    IF n <= 1 THEN t
    ELSE ReinsertAll(_init(n), EntriesFrom(t, 0))

rehash(t, n) ==
    IF n <= t._bucket_count THEN t
    ELSE ReinsertAll(_init(n), EntriesFrom(t, 0))

\* _insert_in_container that keeps the bucket index computed before the growth
_insert_in_container_stale(t, bucket_idx0, value) ==
    LET buckets0   == bucket_count(t)
        buckets    == GrowBuckets(t._size, t._max_load_factor, buckets0)
        t1         == rehash(t, buckets)
        bucket_idx == bucket_idx0
        t2 == IF t1._buckets[bucket_idx] = <<>>
              THEN [t1 EXCEPT
                      !._non_empty_buckets[bucket_idx] = 1,
                      !._first_nonempty_bucket = IF bucket_idx < @ THEN bucket_idx ELSE @,
                      !._last_nonempty_bucket  = IF bucket_idx > @ THEN bucket_idx ELSE @]
              ELSE t1
        chain == Append(t2._buckets[bucket_idx], value)
    IN  [ t |-> [t2 EXCEPT !._buckets[bucket_idx] = chain,
                           !._size = @ + 1,
                           !._load_factor = Frac(t2._size + 1, buckets)],
          bucket_idx |-> bucket_idx,
          chain_idx  |-> Len(chain) - 1 ]

_insert_in_container(t, bucket_idx0, value) ==
    LET buckets0   == bucket_count(t)
        buckets    == GrowBuckets(t._size, t._max_load_factor, buckets0)
        rehashed   == buckets # buckets0
        t1         == rehash(t, buckets)
        bucket_idx == IF rehashed THEN bucket_private(t1, value[1]) ELSE bucket_idx0
        t2 == IF t1._buckets[bucket_idx] = <<>>
              THEN [t1 EXCEPT
                      !._non_empty_buckets[bucket_idx] = 1,
                      !._first_nonempty_bucket = IF bucket_idx < @ THEN bucket_idx ELSE @,
                      !._last_nonempty_bucket  = IF bucket_idx > @ THEN bucket_idx ELSE @]
              ELSE t1
        chain == Append(t2._buckets[bucket_idx], value)
    IN  [ t |-> [t2 EXCEPT !._buckets[bucket_idx] = chain,
                           !._size = @ + 1,
                           !._load_factor = Frac(t2._size + 1, buckets)],
          bucket_idx |-> bucket_idx,
          chain_idx  |-> Len(chain) - 1 ]

\* _insert that stores the new value over the one of an existing key
_insert_overwrite(t, val) ==
    LET found == _find(t, val[1])
    IN  IF found.found
        THEN [ t |-> [t EXCEPT !._buckets[found.bucket_idx][found.chain_idx + 1][2] = val[2]],
               it |-> end(t), inserted |-> FALSE ]
        ELSE LET r == _insert_in_container(t, found.bucket_idx, val)
             IN  [ t |-> r.t,
                   it |-> [bucket_idx |-> found.bucket_idx, chain_idx |-> r.chain_idx],
                   inserted |-> TRUE ]

\* std::pair<iterator, bool>, with the table the call leaves
_insert(t, val) ==
    LET found == _find(t, val[1])
    IN  IF found.found
        THEN [t |-> t, it |-> end(t), inserted |-> FALSE]
        ELSE LET r == _insert_in_container(t, found.bucket_idx, val)
             IN  [ t |-> r.t,
                   it |-> [bucket_idx |-> found.bucket_idx, chain_idx |-> r.chain_idx],
                   inserted |-> TRUE ]

\* a deque::erase that removes nothing
RemoveAt_nothing(chain, i) == chain

\* the chain without its entry at index i (1-based): deque::erase
RemoveAt(chain, i) == SubSeq(chain, 1, i - 1) \o SubSeq(chain, i + 1, Len(chain))

\* erase(const_iterator): the table it leaves and the iterator it returns
erase(t, position) ==
    IF position.bucket_idx >= bucket_count(t)
    THEN [t |-> t, it |-> end(t)]
    ELSE IF position.chain_idx >= Len(t._buckets[position.bucket_idx])
    THEN [t |-> t, it |-> end(t)]
    ELSE
    LET b      == position.bucket_idx
        bucket == RemoveAt(t._buckets[b], position.chain_idx + 1)
        \* result == bucket.end(): the erased entry was the last of its chain
        result_is_end == position.chain_idx = Len(bucket)
        t1 == [t EXCEPT !._buckets[b] = bucket,
                        !._size = @ - 1,
                        !._load_factor = Frac(t._size - 1, bucket_count(t))]
        t2 == [t1 EXCEPT !._non_empty_buckets[b] = 0]
        next_nonempty_bucket == find_first(t2._non_empty_buckets)
        \* the reverse scan from bucket b - 1 down to bucket 0
        lower == {j \in 0..(b - 1) : t2._buckets[j] # <<>>}
    IN  IF bucket = <<>> /\ t2._first_nonempty_bucket = b
        THEN IF next_nonempty_bucket # npos
             THEN [ t  |-> [t2 EXCEPT !._first_nonempty_bucket = next_nonempty_bucket],
                    it |-> [bucket_idx |-> next_nonempty_bucket, chain_idx |-> 0] ]
             ELSE [t |-> t2, it |-> end(t2)]
        ELSE IF bucket = <<>> /\ t2._last_nonempty_bucket = 0
        THEN [t |-> t2, it |-> end(t2)]
        ELSE IF bucket = <<>> /\ t2._last_nonempty_bucket = b
        THEN IF lower # {}
             THEN [ t  |-> [t2 EXCEPT !._last_nonempty_bucket = Max(lower)],
                    it |-> [bucket_idx |-> Max(lower), chain_idx |-> 0] ]
             ELSE [t |-> t2, it |-> end(t2)]
        ELSE LET t3 == IF bucket = <<>> THEN t2 ELSE t1
             IN  IF result_is_end
                 THEN [t |-> t3, it |-> operator_inc(t3, position)]
                 ELSE [t |-> t3, it |-> position]

\* erase(const key_type&) that erases the head of the key's chain
erase_key_front(t, k) ==
    LET found == _find(t, k)
    IN  IF ~found.found
        THEN [t |-> t, n |-> 0]
        ELSE [t |-> erase(t, Pos(found.bucket_idx, 0)).t, n |-> 1]

\* erase(const key_type&) that leaves the occupancy bits as they were
erase_key_keep_bits(t, k) ==
    LET found == _find(t, k)
    IN  IF ~found.found
        THEN [t |-> t, n |-> 0]
        ELSE [ t |-> [erase(t, [bucket_idx |-> found.bucket_idx,
                                chain_idx  |-> found.chain_idx]).t
                         EXCEPT !._non_empty_buckets = t._non_empty_buckets],
               n |-> 1 ]

\* erase(const key_type&): the table it leaves and the count it returns
erase_key(t, k) ==
    LET found == _find(t, k)
    IN  IF ~found.found
        THEN [t |-> t, n |-> 0]
        ELSE [ t |-> erase(t, [bucket_idx |-> found.bucket_idx,
                               chain_idx  |-> found.chain_idx]).t,
               n |-> 1 ]

\* erase(const_iterator, const_iterator): the loop "while (it != last) { erase(it); ++it; }".
\* An iteration that changes neither the table nor it, with it != last, repeats
\* forever: the call does not return (hung).
RECURSIVE erase_range(_, _, _)
erase_range(t, it, last) ==
    IF it = last
    THEN [t |-> t, it |-> it, hung |-> FALSE]
    ELSE LET t1  == erase(t, it).t
             it1 == operator_inc(t1, it)
         IN  IF t1 = t /\ it1 = it
             THEN [t |-> t, it |-> it, hung |-> TRUE]
             ELSE erase_range(t1, it1, last)

\* operator[] whose reference is taken in the bucket computed before the rehash
_at_insert_stale(t, k) ==
    LET found == _find(t, k)
    IN  IF ~found.found
        THEN LET r == _insert_in_container(t, found.bucket_idx, <<k, 0>>)
             IN  [ t   |-> r.t,
                   ref |-> [bucket_idx |-> found.bucket_idx,
                            chain_idx  |-> Len(r.t._buckets[found.bucket_idx]) - 1] ]
        ELSE [ t   |-> t,
               ref |-> [bucket_idx |-> found.bucket_idx, chain_idx |-> found.chain_idx] ]

\* _at with NOT_FOUND_POLICY::INSERT_KEY_VALUE (operator[]): the table it leaves
\* and the position of the mapped value it returns a reference to
_at_insert(t, k) ==
    LET found == _find(t, k)
    IN  IF ~found.found
        THEN LET r == _insert_in_container(t, found.bucket_idx, <<k, 0>>)
             IN  [ t   |-> r.t,
                   ref |-> [bucket_idx |-> r.bucket_idx,
                            chain_idx  |-> Len(r.t._buckets[r.bucket_idx]) - 1] ]
        ELSE [ t   |-> t,
               ref |-> [bucket_idx |-> found.bucket_idx, chain_idx |-> found.chain_idx] ]

\* at(k) that inserts a default value on a miss, as operator[] does
at_insert_on_miss(t, k) ==
    LET r == _at_insert(t, k)
    IN  [t |-> r.t, threw |-> FALSE, value |-> r.t._buckets[r.ref.bucket_idx][r.ref.chain_idx + 1][2]]

\* _at with NOT_FOUND_POLICY::THROW_EXCEPTION (at): the table it leaves, whether
\* it threw std::out_of_range, and the mapped value it returns when it did not
at(t, k) ==
    LET found == _find(t, k)
    IN  IF ~found.found
        THEN [t |-> t, threw |-> TRUE]
        ELSE [ t |-> t, threw |-> FALSE,
               value |-> t._buckets[found.bucket_idx][found.chain_idx + 1][2] ]

\* count(key): 0 when the key's bucket is empty, 1 otherwise
count(t, key) ==
    LET n == bucket_private(t, key)
    IN  IF t._buckets[n] = <<>> THEN 0 ELSE 1

\* table[k] = v: operator[] and the store through the reference it returned
index_assign(t, k, v) ==
    LET r == _at_insert(t, k)
    IN  [r.t EXCEPT !._buckets[r.ref.bucket_idx][r.ref.chain_idx + 1][2] = v]

\* insert(first, last) and insert(initializer_list): _insert applied pairwise
RECURSIVE insert_list(_, _)
insert_list(t, il) ==
    IF il = <<>> THEN t
    ELSE insert_list(_insert(t, Head(il)).t, Tail(il))

\* bucket(k) = bucket_private(k), as the set of its outcomes.  With
\* _bucket_count == 0 the remainder is a division by zero, which is undefined:
\* the divide instruction traps (the process is killed), or, where it does
\* not trap, the remainder it leaves is the dividend.
bucket(t, k) ==
    IF t._bucket_count # 0
    THEN {[trap |-> FALSE, idx |-> bucket_private(t, k)]}
    ELSE {[trap |-> TRUE, idx |-> 0], [trap |-> FALSE, idx |-> DefaultHash(k)]}

\* insert(val) into a table of any capacity, as the set of its outcomes: the
\* table it leaves and the pair it returns, or a crash.  With _bucket_count == 0
\* the array is empty of entries; _find indexes it with an outcome of the
\* undefined remainder (out of range: a crash) and _insert_in_container then
\* doubles the capacity and recomputes the index.
insert_any_capacity(t, val) ==
    IF t._bucket_count # 0
    THEN {[crashed |-> FALSE, r |-> _insert(t, val)]}
    ELSE {[crashed |-> TRUE, r |-> [t |-> t, it |-> Pos(0, 0), inserted |-> FALSE]]}
         \cup {[ crashed |-> FALSE,
                 r |-> [ t  |-> _insert_in_container(t, o.idx, val).t,
                         it |-> Pos(o.idx, _insert_in_container(t, o.idx, val).chain_idx),
                         inserted |-> TRUE ] ] :
                  o \in {x \in bucket(t, val[1]) : ~x.trap /\ x.idx < bucket_count(t)}}

\* operator=(initializer_list): _init(il.size()); insert(il); as the set of its
\* outcomes.  The function has no return statement, so flowing off its end is
\* undefined: the call returns to its caller or the process crashes.
assign_list(t, il) ==
    LET t0 == _init(Len(il))
        placed == IF il = <<>> THEN {t0}
                  ELSE IF t0._bucket_count # 0 THEN {insert_list(t0, il)}
                  ELSE {o.r.t : o \in {x \in insert_any_capacity(t0, il[1]) : ~x.crashed}}
    IN  {[crashed |-> FALSE, t |-> p] : p \in placed} \cup {[crashed |-> TRUE, t |-> t0]}

\* HashTable(std::initializer_list<value_type> il, size_type n): the table it
\* constructs.  With max(il.size(), n) == 1 and a pair to insert, the first
\* insert divides by zero in bucket_private and the process is killed; the
\* empty list inserts nothing and leaves the table of _init.
HashTable_il(il, n) ==
    LET il_size == Len(il)
        bucket_count0 == IF il_size > n THEN il_size ELSE n
    IN  IF il # <<>> /\ _init(bucket_count0)._bucket_count = 0 THEN Killed
        ELSE insert_list(_init(bucket_count0), il)

\* operator= (const HashTableType&): member by member; both tables afterwards
copy_assign(dst, src) ==
    [ dst |-> [ _size                  |-> src._size,
                _bucket_count          |-> src._bucket_count,
                _first_nonempty_bucket |-> src._first_nonempty_bucket,
                _last_nonempty_bucket  |-> src._last_nonempty_bucket,
                _load_factor           |-> src._load_factor,
                _max_load_factor       |-> src._max_load_factor,
                _buckets               |-> src._buckets,
                _non_empty_buckets     |-> src._non_empty_buckets ],
      src |-> src ]

\* a move assignment that does not re-initialise its source: the source keeps
\* its scalar members beside the moved-from (empty) containers
move_assign_no_init(dst, src) ==
    [ dst |-> copy_assign(dst, src).dst,
      src |-> [src EXCEPT !._buckets = << >>, !._non_empty_buckets = << >>] ]

\* operator= (HashTableType&&): the members are moved, then ht._init(DEFAULT_BUCKET_COUNT)
move_assign(dst, src) ==
    [ dst |-> copy_assign(dst, src).dst,
      src |-> _init(DEFAULT_BUCKET_COUNT) ]

\* What operator== can do once its loop dereferences a position that holds no
\* entry (undefined): the assert of operator* aborts, or the read past the
\* chain yields a pair that is not in rhs (false) or one that is, after which
\* ++ stays on that position and the loop does not end.
UndefinedCompare == {"crashed", "false", "hung"}

\* the range-for of operator==, from position it on
RECURSIVE equals_from(_, _, _)
equals_from(lhs, rhs, it) ==
    IF it = end(lhs) THEN {"true"}
    ELSE IF ~(/\ it.bucket_idx < bucket_count(lhs)
              /\ it.chain_idx < Len(lhs._buckets[it.bucket_idx]))
    THEN UndefinedCompare
    ELSE LET kv     == lhs._buckets[it.bucket_idx][it.chain_idx + 1]
             rhs_it == find(rhs, kv[1])
         IN  IF rhs_it = end(rhs) THEN {"false"}
             ELSE IF kv[2] # rhs._buckets[rhs_it.bucket_idx][rhs_it.chain_idx + 1][2]
             THEN {"false"}
             ELSE equals_from(lhs, rhs, operator_inc(lhs, it))

\* operator==(lhs, rhs), as the set of its outcomes
equals(lhs, rhs) ==
    IF lhs._size # rhs._size THEN {"false"}
    ELSE equals_from(lhs, rhs, begin(lhs))

reserve(t, n) ==
    LET nload == (bucket_count(t) * t._max_load_factor[1]) \div t._max_load_factor[2]
    IN  IF nload < n THEN rehash(t, n) ELSE t

clear(t) == _init(DEFAULT_BUCKET_COUNT)

(***************************************************************************)
(* Positions and contents, read off the bucket array.                      *)
(***************************************************************************)
\* a position that holds an entry
Live(t, it) ==
    /\ it.bucket_idx \in DOMAIN t._buckets
    /\ it.chain_idx >= 0
    /\ it.chain_idx < Len(t._buckets[it.bucket_idx])

EntryAt(t, it) == t._buckets[it.bucket_idx][it.chain_idx + 1]

LiveSet(t) ==
    UNION {{Pos(b, c) : c \in 0..(Len(t._buckets[b]) - 1)} : b \in DOMAIN t._buckets}

\* (bucket index, chain index) order: the order a traversal is meant to follow
Before(p, q) ==
    \/ p.bucket_idx < q.bucket_idx
    \/ p.bucket_idx = q.bucket_idx /\ p.chain_idx < q.chain_idx

\* the stored (key, value) pairs
Contents(t) == {EntryAt(t, it) : it \in LiveSet(t)}

\* the iterators a caller may hand to erase: the live positions, one past the
\* end of each non-empty chain, end() and a bucket index out of range
CallerPositions(t) ==
    LiveSet(t)
    \cup {Pos(b, Len(t._buckets[b])) : b \in {i \in DOMAIN t._buckets : t._buckets[i] # <<>>}}
    \cup {end(t), Pos(bucket_count(t), 0)}

(***************************************************************************)
(* The state machine: one table, the reference container the tests keep    *)
(* beside it, the last call with its result, and a caller's traversal.     *)
(***************************************************************************)
VARIABLES
    ht,      \* the HashTable<int, int> under test
    items,   \* the reference container of the tests: key -> value
    op,      \* the last completed call: its name, arguments and result
    walk,    \* the positions of a traversal begun with begin() and advanced by ++
    status   \* "ok", "hung" once a call does not return, "crashed" once the process is killed

vars == <<ht, items, op, walk, status>>

NoRet == <<>>

\* the last call: which operation it was and what it returned
Call(name, ret) == [name |-> name, ret |-> ret]

\* the reference container after m[k] = v
ItemsAssign(m, k, v) == [x \in DOMAIN m \cup {k} |-> IF x = k THEN v ELSE m[x]]

ItemsErase(m, ks) == [x \in DOMAIN m \ ks |-> m[x]]

\* the reference container after insert: an existing key keeps its value
ItemsInsert(m, k, v) == IF k \in DOMAIN m THEN m ELSE ItemsAssign(m, k, v)

RECURSIVE ItemsInsertList(_, _)
ItemsInsertList(m, il) ==
    IF il = <<>> THEN m
    ELSE ItemsInsertList(ItemsInsert(m, Head(il)[1], Head(il)[2]), Tail(il))

Init ==
    /\ \E n \in InitCaps : ht = _init(n)
    /\ items = << >>
    /\ op = Call("construct", NoRet)
    /\ walk = << >>
    /\ status = "ok"

Insert(k, v) ==
    /\ status = "ok"
    /\ LET r == _insert(ht, <<k, v>>)
       IN  /\ ht' = r.t
           /\ op' = Call("insert", [it |-> r.it, inserted |-> r.inserted])
    \* the tests' bookkeeping beside the call: items.insert({k, v})
    /\ items' = ItemsInsert(items, k, v)
    /\ walk' = << >>
    /\ UNCHANGED status

InsertList(il) ==
    /\ status = "ok"
    /\ ht' = insert_list(ht, il)
    /\ op' = Call("insert_list", NoRet)
    /\ items' = ItemsInsertList(items, il)
    /\ walk' = << >>
    /\ UNCHANGED status

IndexAssign(k, v) ==
    /\ status = "ok"
    /\ ht' = index_assign(ht, k, v)
    /\ op' = Call("index_assign", _at_insert(ht, k).ref)
    /\ items' = ItemsAssign(items, k, v)
    /\ walk' = << >>
    /\ UNCHANGED status

EraseIt(position) ==
    /\ status = "ok"
    /\ LET r == erase(ht, position)
       IN  /\ ht' = r.t
           /\ op' = Call("erase", r.it)
    /\ items' = IF Live(ht, position)
                THEN ItemsErase(items, {EntryAt(ht, position)[1]})
                ELSE items
    /\ walk' = << >>
    /\ UNCHANGED status

EraseKey(k) ==
    /\ status = "ok"
    /\ LET r == erase_key(ht, k)
       IN  /\ ht' = r.t
           /\ op' = Call("erase_key", r.n)
    /\ items' = ItemsErase(items, {k})
    /\ walk' = << >>
    /\ UNCHANGED status

\* a valid range: first is live, last is live or end(), first is not after last
ValidRange(t, first, last) ==
    /\ Live(t, first)
    /\ \/ last = end(t)
       \/ Live(t, last) /\ (first = last \/ Before(first, last))

\* the positions of [first, last)
RangePositions(t, first, last) ==
    {it \in LiveSet(t) :
        /\ it = first \/ Before(first, it)
        /\ last = end(t) \/ Before(it, last)}

EraseRange(first, last) ==
    /\ status = "ok"
    /\ ValidRange(ht, first, last)
    /\ LET r == erase_range(ht, first, last)
       IN  /\ ht' = r.t
           /\ op' = Call("erase_range", r.it)
           /\ status' = IF r.hung THEN "hung" ELSE "ok"
    /\ items' = ItemsErase(items, {EntryAt(ht, it)[1] : it \in RangePositions(ht, first, last)})
    /\ walk' = << >>

Rehash(n) ==
    /\ status = "ok"
    /\ ht' = rehash(ht, n)
    \* a void call: what is recorded is whether it went past its early return
    /\ op' = Call("rehash", [acted |-> n > ht._bucket_count])
    /\ walk' = << >>
    /\ UNCHANGED <<items, status>>

Reserve(n) ==
    /\ status = "ok"
    /\ ht' = reserve(ht, n)
    /\ op' = Call("reserve", NoRet)
    /\ walk' = << >>
    /\ UNCHANGED <<items, status>>

Clear ==
    /\ status = "ok"
    /\ ht' = clear(ht)
    /\ op' = Call("clear", NoRet)
    /\ items' = << >>
    /\ walk' = << >>
    /\ UNCHANGED status

\* it = ht.begin()
Begin ==
    /\ status = "ok"
    /\ walk' = <<begin(ht)>>
    /\ op' = Call("begin", begin(ht))
    /\ UNCHANGED <<ht, items, status>>

\* ++it, in a loop "for (it = begin(); it != end(); ++it)"
Increment ==
    /\ status = "ok"
    /\ walk # << >>
    /\ walk[Len(walk)] # end(ht)
    /\ Len(walk) < ht._size + MaxOverrun
    /\ walk' = Append(walk, operator_inc(ht, walk[Len(walk)]))
    /\ op' = Call("increment", walk'[Len(walk')])
    /\ UNCHANGED <<ht, items, status>>

\* it++, in a loop "for (it = begin(); it != end(); it++)"
PostIncrement ==
    /\ status = "ok"
    /\ walk # << >>
    /\ walk[Len(walk)] # end(ht)
    /\ Len(walk) < ht._size + MaxOverrun
    /\ \E o \in operator_post_inc(ht, walk[Len(walk)]) :
          /\ walk' = IF o.crashed THEN walk ELSE Append(walk, o.it)
          /\ op' = Call("post_increment", o.copy)
          /\ status' = IF o.crashed THEN "crashed" ELSE "ok"
    /\ UNCHANGED <<ht, items>>

\* ht.at(k), the exception caught by the caller
At(k) ==
    /\ status = "ok"
    /\ LET r == at(ht, k)
       IN  /\ ht' = r.t
           /\ op' = Call("at", IF r.threw THEN [threw |-> TRUE]
                                ELSE [threw |-> FALSE, value |-> r.value])
    /\ walk' = << >>
    /\ UNCHANGED <<items, status>>

\* ht.count(k)
Count(k) ==
    /\ status = "ok"
    /\ op' = Call("count", count(ht, k))
    /\ walk' = << >>
    /\ UNCHANGED <<ht, items, status>>

\* ht.bucket(k)
Bucket(k) ==
    /\ status = "ok"
    /\ \E o \in bucket(ht, k) :
          /\ op' = Call("bucket", o)
          /\ status' = IF o.trap THEN "crashed" ELSE "ok"
    /\ walk' = << >>
    /\ UNCHANGED <<ht, items>>

\* ht.insert({k, v}) on a table of any capacity
InsertAnyCapacity(k, v) ==
    /\ status = "ok"
    /\ \E o \in insert_any_capacity(ht, <<k, v>>) :
          /\ ht' = o.r.t
          /\ op' = Call("insert", [it |-> o.r.it, inserted |-> o.r.inserted])
          /\ status' = IF o.crashed THEN "crashed" ELSE "ok"
          /\ items' = IF o.crashed THEN items ELSE ItemsInsert(items, k, v)
    /\ walk' = << >>

\* ht = {...}
AssignList(il) ==
    /\ status = "ok"
    /\ \E o \in assign_list(ht, il) :
          /\ ht' = o.t
          /\ status' = IF o.crashed THEN "crashed" ELSE "ok"
          /\ items' = IF o.crashed THEN items ELSE ItemsInsertList(<< >>, il)
    /\ op' = Call("assign_list", NoRet)
    /\ walk' = << >>

\* ht == b or b == ht, for a table b built beside ht
Equal(b, flipped) ==
    /\ status = "ok"
    /\ \E o \in (IF flipped THEN equals(b, ht) ELSE equals(ht, b)) :
          /\ op' = Call("equals", o)
          /\ status' = IF o \in {"crashed", "hung"} THEN o ELSE "ok"
    /\ walk' = << >>
    /\ UNCHANGED <<ht, items>>

\* HashTable<int, int> ht2 = b; ht2 = ht; the run goes on with ht2
CopyAssign(b) ==
    /\ status = "ok"
    /\ ht' = copy_assign(b, ht).dst
    /\ op' = Call("copy_assign", NoRet)
    /\ walk' = << >>
    /\ UNCHANGED <<items, status>>

\* HashTable<int, int> ht2 = b; ht2 = std::move(ht); the run goes on with ht2
\* (keep = "dst") or with the moved-from ht (keep = "src")
MoveAssign(b, keep) ==
    /\ status = "ok"
    /\ ht' = IF keep = "dst" THEN move_assign(b, ht).dst ELSE move_assign(b, ht).src
    /\ op' = Call("move_assign", keep)
    /\ items' = IF keep = "dst" THEN items ELSE << >>
    /\ walk' = << >>
    /\ UNCHANGED status

\* the literal lists handed to insert: {{k, 0}, {k2, 1}}, k2 = k being a
\* duplicate key in the input
Lists(K) == {<<<<k, 0>>, <<k2, 1>>>> : <<k, k2>> \in K \X K}

\* one call of the public interface, with keys drawn from K
Step(K) ==
    \/ \E k \in K, v \in Values : Insert(k, v)
    \/ \E il \in Lists(K) : InsertList(il)
    \/ \E k \in K, v \in Values : IndexAssign(k, v)
    \/ \E position \in CallerPositions(ht) : EraseIt(position)
    \/ \E k \in K : EraseKey(k)
    \/ \E first \in LiveSet(ht), last \in LiveSet(ht) \cup {end(ht)} : EraseRange(first, last)
    \/ \E n \in 0..MaxRehash : Rehash(n)
    \/ \E n \in 0..MaxRehash : Reserve(n)
    \/ Clear
    \/ Begin
    \/ Increment
    \/ PostIncrement

Next == Step(Keys)

Spec == Init /\ [][Next]_vars

(***************************************************************************)
(* The same table with keys that all share one chain: constructed with     *)
(* capacity ChainCap and handed multiples of ChainCap - 1, the modulus of  *)
(* the index function.                                                     *)
(***************************************************************************)
InitLongChain ==
    /\ ht = _init(ChainCap)
    /\ items = << >>
    /\ op = Call("construct", NoRet)
    /\ walk = << >>
    /\ status = "ok"

NextLongChain ==
    \/ \E k \in ChainKeys : Insert(k, 1)
    \/ \E k \in ChainKeys : EraseKey(k)
    \/ \E first \in LiveSet(ht), last \in LiveSet(ht) \cup {end(ht)} : EraseRange(first, last)
    \/ Begin
    \/ Increment
    \/ PostIncrement

SpecLongChain == InitLongChain /\ [][NextLongChain]_vars

(***************************************************************************)
(* The table under insertions, erasures and the keyed queries at and count. *)
(***************************************************************************)
NextQuery ==
    \/ \E k \in Keys, v \in Values : Insert(k, v)
    \/ \E k \in Keys, v \in Values : IndexAssign(k, v)
    \/ \E k \in Keys : EraseKey(k)
    \/ \E k \in Keys : At(k)
    \/ \E k \in Keys : Count(k)

SpecQuery == Init /\ [][NextQuery]_vars

(***************************************************************************)
(* Tables of every capacity from 1: constructed with it, or assigned a      *)
(* literal list (whose length becomes the capacity).                        *)
(***************************************************************************)
\* the literal lists assigned: the empty list, the lists of one pair and of two
Literals(K) == {<< >>} \cup {<<<<k, 0>>>> : k \in K} \cup Lists(K)

InitSmallCap ==
    /\ \E n \in 1..MaxInitCap : ht = _init(n)
    /\ items = << >>
    /\ op = Call("construct", NoRet)
    /\ walk = << >>
    /\ status = "ok"

NextSmallCap ==
    \/ \E k \in Keys, v \in Values : InsertAnyCapacity(k, v)
    \/ \E il \in Literals(Keys) : AssignList(il)
    \/ \E k \in Keys : Bucket(k)

SpecSmallCap == InitSmallCap /\ [][NextSmallCap]_vars

(***************************************************************************)
(* The table beside a second one: comparison, copy and move assignment.     *)
(* The second table is built by the list constructor.                       *)
(***************************************************************************)
Built(K) == {HashTable_il(il, n) : il \in Literals(K), n \in InitCaps}

\* the tables assigned to: default-constructed, then empty or holding one pair
Targets(K) ==
    {HashTable_il(il, DEFAULT_BUCKET_COUNT) : il \in {<< >>} \cup {<<<<k, 0>>>> : k \in K}}

NextAssign ==
    \/ \E k \in Keys, v \in Values : Insert(k, v)
    \/ \E k \in Keys : EraseKey(k)
    \/ \E b \in Built(Keys), flipped \in BOOLEAN : Equal(b, flipped)
    \/ \E b \in Targets(Keys) : CopyAssign(b)
    \/ \E b \in Targets(Keys), keep \in {"dst", "src"} : MoveAssign(b, keep)

SpecAssign == Init /\ [][NextAssign]_vars

(***************************************************************************)
(* Every call that changes the table, the assignments from it included.    *)
(***************************************************************************)
NextMutate ==
    \/ \E k \in Keys, v \in Values : Insert(k, v)
    \/ \E il \in Lists(Keys) : InsertList(il)
    \/ \E k \in Keys, v \in Values : IndexAssign(k, v)
    \/ \E position \in CallerPositions(ht) : EraseIt(position)
    \/ \E k \in Keys : EraseKey(k)
    \/ \E first \in LiveSet(ht), last \in LiveSet(ht) \cup {end(ht)} : EraseRange(first, last)
    \/ \E n \in 0..MaxRehash : Rehash(n)
    \/ \E n \in 0..MaxRehash : Reserve(n)
    \/ Clear
    \/ \E b \in Targets(Keys) : CopyAssign(b)
    \/ \E b \in Targets(Keys), keep \in {"dst", "src"} : MoveAssign(b, keep)

SpecMutate == Init /\ [][NextMutate]_vars

(***************************************************************************)
(* Properties.                                                             *)
(***************************************************************************)
StoredKeys(t) == {e[1] : e \in Contents(t)}

\* bucket_count() is above every capacity the table under test is constructed with
AboveInitCaps(t) == bucket_count(t) > MaxInitCap

\* C1: the table holds at most one entry per distinct key: no key appears at
\* two live positions, in one chain or in two chains, after any sequence of
\* insert, list insert, indexed assignment, erase, rehash and reserve calls.
C1_Uniqueness ==
    \A p \in LiveSet(ht), q \in LiveSet(ht) :
        EntryAt(ht, p)[1] = EntryAt(ht, q)[1] => p = q

\* an insert that took effect in a table of more buckets than it was
\* constructed with, with three entries stored
C1_Witness ==
    /\ op.name \in {"insert", "insert_list", "index_assign"}
    /\ AboveInitCaps(ht)
    /\ ht._size = 3

\* C2: every key the reference container holds (inserted or assigned, and not
\* erased since) is found by find at a live position that holds the key with
\* the value last given to it.
C2_RoundTrip ==
    status = "ok" =>
    \A k \in DOMAIN items :
        LET f == find(ht, k)
        IN  /\ f # end(ht)
            /\ Live(ht, f)
            /\ EntryAt(ht, f) = <<k, items[k]>>

\* two keys are still found in a table of more buckets than it was constructed
\* with, after another key was erased
C2_Witness ==
    /\ op.name = "erase_key"
    /\ op.ret = 1
    /\ AboveInitCaps(ht)
    /\ Cardinality(DOMAIN items) = 2

\* C3: a traversal from begin() by ++ visits size() live positions, each once,
\* and the iterator after them equals end().
C3_IteratorCompleteness ==
    walk # << >> =>
        /\ \A j \in 1..Len(walk) : j <= ht._size => Live(ht, walk[j])
        /\ \A i \in 1..Len(walk), j \in 1..Len(walk) :
               (i <= ht._size /\ j <= ht._size /\ walk[i] = walk[j]) => i = j
        /\ Len(walk) > ht._size => walk[ht._size + 1] = end(ht)

\* C4: insert of a key that is stored reports "not inserted" and leaves the
\* whole table (size, capacity, every chain, the key's value) as it was.
C4_InsertExistingNoOp ==
    [][\A k \in Keys, v \in Values :
          (op'.name = "insert" /\ Insert(k, v) /\ k \in StoredKeys(ht))
              => (~op'.ret.inserted /\ ht' = ht)]_vars

\* an insert was refused in a table that holds two entries
C4_Witness ==
    /\ op.name = "insert"
    /\ ~op.ret.inserted
    /\ ht._size = 2

\* C5: insert of a new key returns true and an iterator to the position where
\* the (key, value) pair is stored after the call.
C5_InsertReturnsPosition ==
    [][\A k \in Keys, v \in Values :
          (op'.name = "insert" /\ Insert(k, v) /\ k \notin StoredKeys(ht))
              => /\ op'.ret.inserted
                 /\ Live(ht', op'.ret.it)
                 /\ EntryAt(ht', op'.ret.it) = <<k, v>>]_vars

\* C6: insert of a key that is stored returns an iterator to the entry the
\* table already holds for that key (the position find gives), not end().
C6_InsertExistingReturnsEntry ==
    [][\A k \in Keys, v \in Values :
          (op'.name = "insert" /\ Insert(k, v) /\ k \in StoredKeys(ht))
              => /\ op'.ret.it # end(ht')
                 /\ op'.ret.it = find(ht', k)
                 /\ Live(ht', op'.ret.it)
                 /\ EntryAt(ht', op'.ret.it)[1] = k]_vars

\* the first of a non-empty set of positions, in (bucket, chain index) order
FirstPos(S) == CHOOSE p \in S : \A q \in S : p = q \/ Before(p, q)

\* C7: erase of a live position returns an iterator to the entry that followed
\* the erased one in iteration order, at the position it now has, or end()
\* when no entry followed it.
C7_EraseReturnsNext ==
    [][\A position \in LiveSet(ht) :
          (op'.name = "erase" /\ EraseIt(position))
              => LET later == {q \in LiveSet(ht) : Before(position, q)}
                 IN  IF later = {}
                     THEN op'.ret = end(ht')
                     ELSE /\ Live(ht', op'.ret)
                          /\ EntryAt(ht', op'.ret) = EntryAt(ht, FirstPos(later))]_vars

C9_EraseAllTerminates ==
    [][(op'.name = "erase_range" /\ ht._size > 0 /\ EraseRange(begin(ht), end(ht)))
          => /\ status' = "ok"
             /\ ht'._size = 0
             /\ begin(ht') = end(ht')]_vars

\* C10: a call erase(first, last) on a valid range that returns has removed
\* exactly the entries at the positions of [first, last): size() went down by
\* their number and every other entry is still stored.
C10_EraseRangeExact ==
    [][\A first \in LiveSet(ht), last \in LiveSet(ht) \cup {end(ht)} :
          (op'.name = "erase_range" /\ EraseRange(first, last) /\ status' = "ok")
              => LET inside == {EntryAt(ht, it) : it \in RangePositions(ht, first, last)}
                 IN  /\ ht'._size = ht._size - Cardinality(RangePositions(ht, first, last))
                     /\ Contents(ht') = Contents(ht) \ inside]_vars

\* C11: rehash(n), for every n handed to it, leaves size() and the set of
\* stored (key, value) pairs as they were, and every stored key is found
\* afterwards at a live position of the bucket it maps to under the new capacity.
C11_RehashPreservesContents ==
    [][\A n \in 0..MaxRehash :
          (op'.name = "rehash" /\ Rehash(n))
              => /\ ht'._size = ht._size
                 /\ Contents(ht') = Contents(ht)
                 /\ \A e \in Contents(ht) :
                        LET f == find(ht', e[1])
                        IN  /\ f # end(ht')
                            /\ Live(ht', f)
                            /\ EntryAt(ht', f) = e
                            /\ f.bucket_idx = bucket_private(ht', e[1])]_vars

\* a rehash rebuilt the bucket array of a table that holds two entries
C11_Witness ==
    /\ op.name = "rehash"
    /\ op.ret.acted
    /\ ht._size = 2

\* size() / bucket_count() is below the maximum load factor
LoadBelowMax(t) == t._size * t._max_load_factor[2] < t._max_load_factor[1] * bucket_count(t)

\* the capacities bucket_count() * 2^j under which one more entry keeps the
\* load below the maximum
EnoughBuckets(t) ==
    {b \in {bucket_count(t) * 2^j : j \in 0..(t._size + 1)} :
        (t._size + 1) * t._max_load_factor[2] < t._max_load_factor[1] * b}

C15_CountExact ==
    [][\A k \in Keys :
          (op'.name = "count" /\ Count(k))
              => /\ op'.ret = (IF k \in StoredKeys(ht) THEN 1 ELSE 0)
                 /\ ht' = ht]_vars

RECURSIVE SumOfChainLengths(_, _)
SumOfChainLengths(t, i) ==
    IF i >= bucket_count(t) THEN 0
    ELSE Len(t._buckets[i]) + SumOfChainLengths(t, i + 1)

\* C20: between calls size() equals the sum of the lengths of all chains,
\* after a rehash and after an erase of a position that holds no entry
\* included.
C20_SizeCounter ==
    status = "ok" => ht._size = SumOfChainLengths(ht, 0)

\* erase returned end() in a table whose two entries share one chain
C20_Witness ==
    /\ op.name = "erase"
    /\ op.ret = end(ht)
    /\ ht._size = 2
    /\ ht._first_nonempty_bucket = ht._last_nonempty_bucket

\* C19: on every table constructed with a capacity c >= 1 or assigned a
\* literal list, and whatever was inserted since, bucket(k) is defined (one
\* outcome, and not a trap) and lies in 0 .. bucket_count() - 1.
C19_IndexInRange ==
    [][\A k \in Keys :
          (op'.name = "bucket" /\ Bucket(k))
              => /\ status' = "ok"
                 /\ ~op'.ret.trap
                 /\ op'.ret.idx \in 0..(bucket_count(ht) - 1)
                 /\ Cardinality(bucket(ht, k)) = 1]_vars

\* C16: for a reachable table A and a table B built beside it, A == B and
\* B == A return (neither crash nor loop), with true exactly when the two
\* hold the same (key, value) pairs, whatever their bucket counts and chain
\* orders; A == A is true.
C16_Equality ==
    [][op'.name = "equals" =>
       \A b \in Built(Keys), flipped \in BOOLEAN :
          Equal(b, flipped)
              => /\ status' = "ok"
                 /\ op'.ret = (IF Contents(ht) = Contents(b) THEN "true" ELSE "false")
                 /\ equals(ht, b) = equals(b, ht)
                 /\ equals(ht, ht) = {"true"}]_vars

\* C17: after ht2 = ht1, ht2 holds the pairs and the size of ht1, every key of
\* ht1 is found in ht2 by find and at with its value, ht1 is as it was, and
\* ht1 == ht2 returns true.
C17_CopyAssign ==
    [][op'.name = "copy_assign" =>
       \A b \in Targets(Keys) :
          CopyAssign(b)
              => LET r == copy_assign(b, ht)
                 IN  /\ r.src = ht
                     /\ r.dst._size = ht._size
                     /\ Contents(r.dst) = Contents(ht)
                     /\ \A e \in Contents(ht) :
                            /\ Live(r.dst, find(r.dst, e[1]))
                            /\ EntryAt(r.dst, find(r.dst, e[1])) = e
                            /\ at(r.dst, e[1]) = [t |-> r.dst, threw |-> FALSE, value |-> e[2]]
                     /\ equals(ht, r.dst) = {"true"}]_vars

\* C18: after ht2 = std::move(ht1), ht2 holds the pairs, the size and the
\* capacity ht1 had, and ht1 is empty with the default capacity, begin()
\* equal to end(), and takes an insert of any pair.
C18_MoveAssign ==
    [][op'.name = "move_assign" =>
       \A b \in Targets(Keys), keep \in {"dst", "src"} :
          MoveAssign(b, keep)
              => LET r == move_assign(b, ht)
                 IN  /\ r.dst._size = ht._size
                     /\ bucket_count(r.dst) = bucket_count(ht)
                     /\ Contents(r.dst) = Contents(ht)
                     /\ \A e \in Contents(ht) :
                            /\ Live(r.dst, find(r.dst, e[1]))
                            /\ EntryAt(r.dst, find(r.dst, e[1])) = e
                     /\ r.src._size = 0
                     /\ bucket_count(r.src) = DEFAULT_BUCKET_COUNT
                     /\ Contents(r.src) = {}
                     /\ begin(r.src) = end(r.src)
                     /\ \A k \in Keys, v \in Values :
                            /\ _insert(r.src, <<k, v>>).inserted
                            /\ Contents(_insert(r.src, <<k, v>>).t) = {<<k, v>>}]_vars

\* a table of two entries, of a capacity other than the default, was moved
\* into a second table, which the run goes on with
C18_Witness ==
    /\ op.name = "move_assign"
    /\ op.ret = "dst"
    /\ ht._size = 2
    /\ bucket_count(ht) # DEFAULT_BUCKET_COUNT

\* C21: every stored entry lies in the chain whose index is bucket(key) under
\* the current capacity, after inserts and indexed assignments that grow the
\* table, rehash, reserve, erase, clear, copy and move assignment.
C21_BucketPlacement ==
    \A p \in LiveSet(ht) :
        bucket(ht, EntryAt(ht, p)[1]) = {[trap |-> FALSE, idx |-> p.bucket_idx]}

\* an insert or indexed assignment doubled the capacity, and an entry lies in a
\* bucket other than the one its key maps to under the former capacity
C21_Witness ==
    /\ op.name \in {"insert", "index_assign"}
    /\ AboveInitCaps(ht)
    /\ bucket_count(ht) % 2 = 0
    /\ \E p \in LiveSet(ht) :
          p.bucket_idx # DefaultHash(EntryAt(ht, p)[1]) % ((bucket_count(ht) \div 2) - 1)

\* C22: the occupancy bitset has one bit per bucket, and bit i is 1 exactly
\* when chain i is non-empty, after every insert, erase, rehash, reserve,
\* clear, copy and move assignment.
C22_OccupancySet ==
    /\ DOMAIN ht._non_empty_buckets = DOMAIN ht._buckets
    /\ \A i \in DOMAIN ht._buckets :
           /\ ht._non_empty_buckets[i] \in {0, 1}
           /\ ht._non_empty_buckets[i] = 1 <=> ht._buckets[i] # <<>>

\* erase of a live position (it returned an iterator other than end()) emptied
\* a chain: two entries are left, in two chains, of a table of more buckets
\* than it was constructed with, where the three keys have a chain each
C22_Witness ==
    /\ op.name = "erase"
    /\ op.ret # end(ht)
    /\ AboveInitCaps(ht)
    /\ ht._size = 2
    /\ Cardinality({i \in DOMAIN ht._non_empty_buckets : ht._non_empty_buckets[i] = 1}) = 2

\* the buckets whose chain holds an entry
NonEmptyBuckets(t) == {i \in DOMAIN t._buckets : t._buckets[i] # <<>>}

\* C23: with size() > 0, begin() is position 0 of the lowest-indexed non-empty
\* bucket, a live position; with size() == 0, begin() == end().  This holds
\* after every interleaving of inserts and erases, a table erased down to
\* empty and then given a key of another bucket included.
C23_Begin ==
    IF ht._size > 0
    THEN /\ NonEmptyBuckets(ht) # {}
         /\ begin(ht) = Pos(Min(NonEmptyBuckets(ht)), 0)
         /\ Live(ht, begin(ht))
    ELSE begin(ht) = end(ht)

\* an insert stored the only entry, in a bucket other than bucket 0, of a
\* table whose capacity is above every constructed one and not the default:
\* in these runs the capacity a doubling of _insert_in_container leaves, so
\* that the table held entries and was erased down to empty before the insert
C23_Witness ==
    /\ op.name = "insert"
    /\ op.ret.inserted
    /\ ht._size = 1
    /\ AboveInitCaps(ht)
    /\ bucket_count(ht) # DEFAULT_BUCKET_COUNT
    /\ begin(ht).bucket_idx > 0

\* C24: bucket_count() never decreases across insert, list insert, indexed
\* assignment, erase, rehash(n) and reserve(n); rehash(n) with n at most
\* bucket_count() leaves bucket_count(), every chain with the order of its
\* entries and the occupancy bits as they were, and rehash(n) with n above
\* bucket_count() ends with bucket_count() >= n.
C24_CapacityMonotonic ==
    [][/\ op'.name \in {"insert", "insert_list", "index_assign", "erase", "erase_key",
                        "erase_range", "rehash", "reserve"}
             => bucket_count(ht') >= bucket_count(ht)
       /\ op'.name = "rehash" =>
             \A n \in 0..MaxRehash :
                 Rehash(n) => IF n <= bucket_count(ht)
                              THEN /\ bucket_count(ht') = bucket_count(ht)
                                   /\ ht'._buckets = ht._buckets
                                   /\ ht'._non_empty_buckets = ht._non_empty_buckets
                              ELSE bucket_count(ht') >= n]_vars

\* rehash(n) with n equal to bucket_count() went past its early return and
\* rebuilt a table of one entry: the table has the least capacity it can be
\* constructed with, which no larger n leaves
C24_Witness ==
    /\ op.name = "rehash"
    /\ op.ret.acted
    /\ bucket_count(ht) = Min(InitCaps)
    /\ ht._size = 1

=============================================================================
